---- MODULE Spec2Model ----
(***************************************************************************)
(* Binomial-lattice pricing engine of finance_models/derivatives/          *)
(* binarytree.py: the (T, dT, N) reconciler, the risk-neutral factors, the *)
(* forward asset lattice, the backward derivative lattice and the lazily   *)
(* cached price accessor.                                                  *)
(*                                                                         *)
(* Numbers are exact rationals <<n, d>> (d > 0, lowest terms); the value   *)
(* <<0, 0>> is numpy's nan.  None is the empty set and a present optional  *)
(* value v is {v}.                                                         *)
(***************************************************************************)
EXTENDS Integers, Sequences, FiniteSets, TLC

\* pc      position: "new" (no instance), "raised" (a constructor raised),
\*         "idle" (between calls), or a place inside price and the builders
\* cls     the concrete class: asset variant, exercise style, payoff
\* self    the attributes of the instance
\* frame   the locals of the lattice builder that is running (tree, i, j, u, d, p)
\* rets    what the reads of price have returned so far, in order
\* builds  how many times each builder has returned
\* call    one call of _get_check_steps on its own: arguments and result
VARIABLES pc, cls, self, frame, rets, builds, call

vars == <<pc, cls, self, frame, rets, builds, call>>

(***************************************************************************)
(* Bounds of the model.                                                    *)
(***************************************************************************)
\* largest step count N of an instance (lattices are N x N)
MaxN == 3
\* number of times the price property is read on the instance
MaxReads == 2

(***************************************************************************)
(* Exact arithmetic with nan.                                              *)
(***************************************************************************)
None == {}
Some(v) == {v}
Val(o) == CHOOSE v \in o : TRUE

NaN == <<0, 0>>
IsNaN(x) == x[2] = 0

Abs(n) == IF n < 0 THEN -n ELSE n

RECURSIVE GCD(_, _)
GCD(a, b) == IF b = 0 THEN a ELSE GCD(b, a % b)

\* the rational n/d in lowest terms; a zero denominator is nan
Norm(n, d) ==
    IF d = 0 THEN NaN
    ELSE LET g == GCD(Abs(n), Abs(d))
             s == IF d < 0 THEN -1 ELSE 1
         IN  <<(s * n) \div g, (s * d) \div g>>

R(n, d) == Norm(n, d)
FromInt(n) == <<n, 1>>
Zero == <<0, 1>>
One == <<1, 1>>

\* sums over the least common denominator and products cancelled crosswise, so
\* that intermediate values stay small
Add(x, y) ==
    IF IsNaN(x) \/ IsNaN(y) THEN NaN
    ELSE LET g == GCD(x[2], y[2])
         IN  Norm(x[1] * (y[2] \div g) + y[1] * (x[2] \div g), (x[2] \div g) * y[2])
Neg(x) == <<-x[1], x[2]>>
Sub(x, y) == Add(x, Neg(y))
Mul(x, y) ==
    IF IsNaN(x) \/ IsNaN(y) THEN NaN
    ELSE LET g1 == GCD(Abs(x[1]), y[2])
             g2 == GCD(Abs(y[1]), x[2])
         IN  Norm((x[1] \div g1) * (y[1] \div g2), (x[2] \div g2) * (y[2] \div g1))
\* numpy division: a zero divisor gives inf or nan with a warning, no exception.
\* The quotients of this program (d = 1/u, p) are only ever fed to products and
\* sums that turn +-inf into nan, so inf is folded into nan here.
Div(x, y) ==
    IF IsNaN(x) \/ IsNaN(y) \/ y[1] = 0 THEN NaN
    ELSE Mul(x, Norm(y[2], y[1]))

\* comparisons are False when either side is nan
Gt(x, y) == ~IsNaN(x) /\ ~IsNaN(y) /\ x[1] * y[2] > y[1] * x[2]
Ge(x, y) == ~IsNaN(x) /\ ~IsNaN(y) /\ x[1] * y[2] >= y[1] * x[2]

\* Python's int(): truncation toward zero
Trunc(x) == IF x[1] >= 0 THEN x[1] \div x[2] ELSE -((-x[1]) \div x[2])

\* Python's max(a, b): b when b > a, else a (so a nan first argument is kept)
PyMax(a, b) == IF Gt(b, a) THEN b ELSE a

ISqrt(n) == CHOOSE k \in 0..n : k * k <= n /\ (k + 1) * (k + 1) > n

\* np.sqrt of n/d, rounded down to a multiple of 1/(2d); exact on ratios of
\* squares; nan for a negative argument
Sqrt(x) ==
    IF IsNaN(x) \/ x[1] < 0 THEN NaN
    ELSE Norm(ISqrt(x[1] * x[2] * 4), x[2] * 2)

\* np.exp, by its first-order expansion: 1 + x for x >= 0 and 1/(1 - x) for
\* x < 0, which keeps exp(0) = 1, exp(x) > 0, exp(-x) = 1/exp(x) and monotonicity
Exp(x) ==
    IF IsNaN(x) THEN NaN
    ELSE IF x[1] >= 0 THEN Add(One, x)
    ELSE Div(One, Sub(One, x))

(***************************************************************************)
(* BinaryTreePricing._get_check_steps and _get_check_vol                   *)
(***************************************************************************)
Raise(e) == [raise |-> e]
Raised(x) == x.raise # "None"

NumNone(T, dT, N) ==
    (IF T = None THEN 1 ELSE 0) + (IF dT = None THEN 1 ELSE 0)
        + (IF N = None THEN 1 ELSE 0)

\* N = T / dT + 1 (line 102), and the same with the "+ 1" forgotten
StepCount_NoPlusOne(ratio) == ratio

StepCount(ratio) == Add(ratio, One)

\* T, dT: optional rationals; N: optional integer.  Python's "/" on a zero
\* divisor raises ZeroDivisionError.
get_check_steps(T, dT, N) ==
    IF NumNone(T, dT, N) > 1 THEN Raise("TypeError")
    ELSE IF N = None THEN
        IF Val(dT) = Zero THEN Raise("ZeroDivisionError")
        ELSE LET ratio == Div(Val(T), Val(dT))
                 N0 == StepCount(ratio)
             IN  IF ratio # FromInt(Trunc(ratio)) THEN
                     LET N1 == Trunc(N0) + 1
                     IN  IF N1 - 1 = 0 THEN Raise("ZeroDivisionError")
                         ELSE [raise |-> "None", T |-> Val(T),
                               dT |-> Div(Val(T), FromInt(N1 - 1)), N |-> N1]
                 ELSE [raise |-> "None", T |-> Val(T), dT |-> Val(dT),
                       N |-> Trunc(N0)]
    ELSE IF T = None THEN
        [raise |-> "None", T |-> Mul(FromInt(Val(N) - 1), Val(dT)),
         dT |-> Val(dT), N |-> Val(N)]
    ELSE
        IF Val(N) - 1 = 0 THEN Raise("ZeroDivisionError")
        ELSE [raise |-> "None", T |-> Val(T),
              dT |-> Div(Val(T), FromInt(Val(N) - 1)), N |-> Val(N)]

get_check_vol(vol) ==
    IF Gt(Zero, vol) THEN Raise("ValueError")
    ELSE [raise |-> "None", vol |-> vol]

(***************************************************************************)
(* Constructors                                                            *)
(***************************************************************************)
\* BinaryTreePricing.__init__: the attributes of the new instance, or the
\* error raised.  The two lattice attributes do not exist yet (None).
BinaryTreePricing_init(S0, K, r, vol, q, T, dT, N) ==
    LET steps == get_check_steps(T, dT, N)
    IN  IF Raised(steps) THEN Raise(steps.raise)
        ELSE LET v == get_check_vol(vol)
             IN  IF Raised(v) THEN Raise(v.raise)
                 ELSE [raise |-> "None",
                       S0 |-> S0, K |-> K, r |-> r, q |-> q,
                       T |-> steps.T, dT |-> steps.dT, N |-> steps.N,
                       vol |-> v.vol, rf |-> None,
                       asset_price_tree |-> None,
                       derivative_price_tree |-> None]

\* FuturesGeneral.__init__
FuturesGeneral_init(S0, K, r, vol, q, T, dT, N) ==
    LET o == BinaryTreePricing_init(S0, K, r, vol, q, T, dT, N)
    IN  IF Raised(o) THEN o ELSE [o EXCEPT !.q = o.r]

\* CurrencyGeneral.__init__; rf is the optional keyword argument
CurrencyGeneral_init(S0, K, r, vol, q, T, dT, N, rf) ==
    LET o == BinaryTreePricing_init(S0, K, r, vol, q, T, dT, N)
    IN  IF Raised(o) THEN o
        ELSE LET o1 == [o EXCEPT !.rf = rf]
             IN  IF o1.rf # None THEN [o1 EXCEPT !.q = Val(o1.rf)] ELSE o1

\* the constructor the class resolves to (method resolution order)
New(c, S0, K, r, vol, q, T, dT, N, rf) ==
    CASE c.asset = "Stock"    -> BinaryTreePricing_init(S0, K, r, vol, q, T, dT, N)
      [] c.asset = "Futures"  -> FuturesGeneral_init(S0, K, r, vol, q, T, dT, N)
      [] c.asset = "Currency" -> CurrencyGeneral_init(S0, K, r, vol, q, T, dT, N, rf)

(***************************************************************************)
(* RandomWalkRisk.calc_riskfree_proportion                                 *)
(***************************************************************************)
calc_riskfree_proportion(o) ==
    LET u == Exp(Mul(o.vol, Sqrt(o.dT)))
        d == Div(One, u)
        p == Div(Sub(Exp(Mul(Sub(o.r, o.q), o.dT)), d), Sub(u, d))
    IN  [u |-> u, d |-> d, p |-> p]

(***************************************************************************)
(* Arrays: N x N matrices indexed from 0; a 2 x 2 slice is a view          *)
(***************************************************************************)
zeros(N) == [a \in 0..(N - 1) |-> [b \in 0..(N - 1) |-> Zero]]

\* tree[i:i+2, j:j+2]
Slice(tree, i, j) == [a \in 0..1 |-> [b \in 0..1 |-> tree[i + a][j + b]]]

\* tree[i:i+2, j:j+2] = w
SetSlice(tree, i, j, w) ==
    [a \in DOMAIN tree |-> [b \in DOMAIN tree[a] |->
        IF a \in {i, i + 1} /\ b \in {j, j + 1} THEN w[a - i][b - j]
        ELSE tree[a][b]]]

(***************************************************************************)
(* Asset lattice                                                           *)
(***************************************************************************)
\* build_asset_node with the two children exchanged: the down-child gets
\* curr_val * u and the up-child curr_val * d
build_asset_node_swapped(o, current_node, current_step, u, d) ==
    LET n1 == IF current_step = 0
              THEN [current_node EXCEPT ![0][0] = o.S0]
              ELSE current_node
        curr_val == n1[0][0]
    IN  [n1 EXCEPT ![1][0] = Mul(curr_val, u), ![1][1] = Mul(curr_val, d)]

\* StockGeneral.build_asset_node (inherited by every asset variant)
build_asset_node(o, current_node, current_step, u, d) ==
    LET n1 == IF current_step = 0
              THEN [current_node EXCEPT ![0][0] = o.S0]
              ELSE current_node
        curr_val == n1[0][0]
    IN  [n1 EXCEPT ![1][0] = Mul(curr_val, d), ![1][1] = Mul(curr_val, u)]

\* the frame of build_asset_tree on entry to its loops
AssetFrame(o) ==
    LET f == calc_riskfree_proportion(o)
    IN  [tree |-> zeros(o.N), i |-> 0, j |-> 0, u |-> f.u, d |-> f.d, p |-> f.p]

\* for i in range(0, N - 1): exhausted
AssetLoopDone(o, fr) == fr.i > o.N - 2

\* one pass of the inner loop body of build_asset_tree, and the move to the
\* next (i, j)
AssetStep(o, fr) ==
    LET nd == Slice(fr.tree, fr.i, fr.j)
        t1 == SetSlice(fr.tree, fr.i, fr.j,
                       build_asset_node(o, nd, fr.i, fr.u, fr.d))
    IN  IF fr.j < fr.i THEN [fr EXCEPT !.tree = t1, !.j = fr.j + 1]
        ELSE [fr EXCEPT !.tree = t1, !.i = fr.i + 1, !.j = 0]

RECURSIVE RunAsset(_, _)
RunAsset(o, fr) ==
    IF AssetLoopDone(o, fr) THEN fr.tree ELSE RunAsset(o, AssetStep(o, fr))

\* LinearPayoffAsset.build_asset_tree
build_asset_tree(o) == RunAsset(o, AssetFrame(o))

(***************************************************************************)
(* Derivative lattice                                                      *)
(***************************************************************************)
\* Call.option_price / Put.option_price
option_price(c, spot, strike) ==
    IF c.payoff = "Call" THEN PyMax(Sub(spot, strike), Zero)
    ELSE PyMax(Sub(strike, spot), Zero)

\* EuropeanOption.build_derivative_node without the test of line 269: the two
\* children are overwritten with their payoff at every step
European_build_derivative_node_reseeds(c, o, current_node, current_asset_node, current_step, proportion) ==
    LET Stdown == current_asset_node[1][0]
        Stup == current_asset_node[1][1]
        n1 == [current_node EXCEPT ![1][0] = option_price(c, Stdown, o.K),
                                   ![1][1] = option_price(c, Stup, o.K)]
        down == n1[1][0]
        up == n1[1][1]
        val == Mul(Exp(Mul(Neg(o.r), o.dT)),
                   Add(Mul(proportion, up), Mul(Sub(One, proportion), down)))
    IN  [node |-> [n1 EXCEPT ![0][0] = val], asset_node |-> current_asset_node]

\* EuropeanOption.build_derivative_node.  Both arguments are views; the result
\* gives the contents of both views when the method returns.
European_build_derivative_node(c, o, current_node, current_asset_node, current_step, proportion) ==
    LET Stdown == current_asset_node[1][0]
        Stup == current_asset_node[1][1]
        n1 == IF current_step = o.N - 2
              THEN [current_node EXCEPT ![1][0] = option_price(c, Stdown, o.K),
                                        ![1][1] = option_price(c, Stup, o.K)]
              ELSE current_node
        down == n1[1][0]
        up == n1[1][1]
        val == Mul(Exp(Mul(Neg(o.r), o.dT)),
                   Add(Mul(proportion, up), Mul(Sub(One, proportion), down)))
    IN  [node |-> [n1 EXCEPT ![0][0] = val], asset_node |-> current_asset_node]

\* AmericanOption.build_derivative_node storing the node value through the wrong
\* view: current_asset_node[0, 0] = max(keep, sell)
American_build_derivative_node_writes_asset(c, o, current_node, current_asset_node, current_step, proportion) ==
    LET Stdown == current_asset_node[1][0]
        Stup == current_asset_node[1][1]
        n1 == IF current_step = o.N - 2
              THEN [current_node EXCEPT ![1][0] = option_price(c, Stdown, o.K),
                                        ![1][1] = option_price(c, Stup, o.K)]
              ELSE current_node
        down == n1[1][0]
        up == n1[1][1]
        keep == Mul(Exp(Mul(Neg(o.r), o.dT)),
                    Add(Mul(proportion, up), Mul(Sub(One, proportion), down)))
        Stnow == current_asset_node[0][0]
        sell == option_price(c, Stnow, o.K)
    IN  [node |-> n1,
         asset_node |-> [current_asset_node EXCEPT ![0][0] = PyMax(keep, sell)]]

\* AmericanOption.build_derivative_node
American_build_derivative_node(c, o, current_node, current_asset_node, current_step, proportion) ==
    LET Stdown == current_asset_node[1][0]
        Stup == current_asset_node[1][1]
        n1 == IF current_step = o.N - 2
              THEN [current_node EXCEPT ![1][0] = option_price(c, Stdown, o.K),
                                        ![1][1] = option_price(c, Stup, o.K)]
              ELSE current_node
        down == n1[1][0]
        up == n1[1][1]
        keep == Mul(Exp(Mul(Neg(o.r), o.dT)),
                    Add(Mul(proportion, up), Mul(Sub(One, proportion), down)))
        Stnow == current_asset_node[0][0]
        sell == option_price(c, Stnow, o.K)
    IN  [node |-> [n1 EXCEPT ![0][0] = PyMax(keep, sell)],
         asset_node |-> current_asset_node]

build_derivative_node(c, o, current_node, current_asset_node, current_step, proportion) ==
    IF c.exercise = "European"
    THEN European_build_derivative_node(c, o, current_node, current_asset_node,
                                        current_step, proportion)
    ELSE American_build_derivative_node(c, o, current_node, current_asset_node,
                                        current_step, proportion)

\* the frame of build_derivative_tree on entry to its loops; asset is
\* self.asset_price_tree
DerivFrame(o, asset) ==
    LET f == calc_riskfree_proportion(o)
    IN  [tree |-> [a \in DOMAIN asset |-> [b \in DOMAIN asset[a] |-> Zero]],
         i |-> o.N - 2, j |-> 0, u |-> f.u, d |-> f.d, p |-> f.p]

\* for i in range(N - 2, -1, -1): exhausted
DerivLoopDone(fr) == fr.i < 0

\* one pass of the inner loop body of build_derivative_tree: the new frame and
\* the asset lattice as the aliased window leaves it
DerivStep(c, o, asset, fr) ==
    LET asset_node == Slice(asset, fr.i, fr.j)
        der_node == Slice(fr.tree, fr.i, fr.j)
        res == build_derivative_node(c, o, der_node, asset_node, fr.i, fr.p)
        t1 == SetSlice(fr.tree, fr.i, fr.j, res.node)
    IN  [frame |-> IF fr.j < fr.i THEN [fr EXCEPT !.tree = t1, !.j = fr.j + 1]
                   ELSE [fr EXCEPT !.tree = t1, !.i = fr.i - 1, !.j = 0],
         asset |-> SetSlice(asset, fr.i, fr.j, res.asset_node)]

RECURSIVE RunDeriv(_, _, _, _)
RunDeriv(c, o, asset, fr) ==
    IF DerivLoopDone(fr) THEN fr.tree
    ELSE LET s == DerivStep(c, o, asset, fr)
         IN  RunDeriv(c, o, s.asset, s.frame)

\* OptionGeneralPricing.build_derivative_tree
build_derivative_tree(c, o) ==
    RunDeriv(c, o, Val(o.asset_price_tree), DerivFrame(o, Val(o.asset_price_tree)))

\* derivative_price_tree[0, 0]; an empty array has no cell (0, 0)
Root(tree) ==
    IF 0 \in DOMAIN tree THEN [raise |-> "None", value |-> tree[0][0]]
    ELSE [raise |-> "IndexError", value |-> NaN]

(***************************************************************************)
(* Inputs                                                                  *)
(***************************************************************************)
Classes ==
    [asset : {"Stock", "Futures", "Currency"},
     exercise : {"European", "American"},
     payoff : {"Call", "Put"}]

S0Set == {R(1, 1), R(2, 1)}
KSet == {R(1, 1), R(2, 1)}
rSet == {R(0, 1), R(1, 1)}
qSet == {R(0, 1), R(1, 2)}
volSet == {R(-1, 1), R(0, 1), R(1, 4)}
rfSet == {None, Some(R(1, 2))}
TArgs == {None, Some(R(0, 1)), Some(R(1, 4)), Some(R(1, 2))}
dTArgs == {None, Some(R(0, 1)), Some(R(1, 4)), Some(R(1, 3))}
NArgs == {None} \cup {Some(n) : n \in 1..MaxN}

(***************************************************************************)
(* The instance and the reads of its price                                 *)
(***************************************************************************)
NoClass == [asset |-> "None", exercise |-> "None", payoff |-> "None"]
NoSelf == [raise |-> "None"]
NoFrame == [i |-> 0, j |-> 0]
NoCall == [phase |-> "none"]

Init ==
    /\ pc = "new"
    /\ cls = NoClass
    /\ self = NoSelf
    /\ frame = NoFrame
    /\ rets = <<>>
    /\ builds = [asset |-> 0, derivative |-> 0]
    /\ call = NoCall

\* cls(S0, K, r, vol, q, T, dT, N[, rf = rf]) for one of the twelve concrete
\* classes; an instance exists only if no constructor raised
Construct ==
    /\ pc = "new"
    /\ \E c \in Classes, S0 \in S0Set, K \in KSet, r \in rSet, vol \in volSet,
          q \in qSet, T \in TArgs, dT \in dTArgs, N \in NArgs, rf \in rfSet :
          LET o == New(c, S0, K, r, vol, q, T, dT, N, rf)
          IN  /\ c.asset # "Currency" => rf = None
              /\ ~Raised(o) => o.N <= MaxN
              /\ cls' = c
              /\ self' = o
              /\ pc' = IF Raised(o) THEN "raised" ELSE "idle"
    /\ UNCHANGED <<frame, rets, builds, call>>

\* getattr(self, name, None) is None (lines 57 and 61), and the same test
\* answering True whatever the attribute holds
IsUnset_Always(attr) == TRUE

IsUnset(attr) == attr = None

\* price, lines 57-58: the asset lattice is built only if the attribute is unset
PriceGetAssetTree ==
    /\ pc = "idle"
    /\ Len(rets) < MaxReads
    /\ IF IsUnset(self.asset_price_tree)
       THEN /\ pc' = "build_asset_tree"
            /\ frame' = AssetFrame(self)
       ELSE /\ pc' = "price_61"
            /\ frame' = frame
    /\ UNCHANGED <<cls, self, rets, builds, call>>

\* build_asset_tree, lines 149-154: one (i, j) of the nested loops
BuildAssetNode ==
    /\ pc = "build_asset_tree"
    /\ ~AssetLoopDone(self, frame)
    /\ frame' = AssetStep(self, frame)
    /\ UNCHANGED <<pc, cls, self, rets, builds, call>>

\* build_asset_tree returns and price stores the lattice (line 58)
BuildAssetTreeReturn ==
    /\ pc = "build_asset_tree"
    /\ AssetLoopDone(self, frame)
    /\ self' = [self EXCEPT !.asset_price_tree = Some(frame.tree)]
    /\ builds' = [builds EXCEPT !.asset = @ + 1]
    /\ frame' = NoFrame
    /\ pc' = "price_61"
    /\ UNCHANGED <<cls, rets, call>>

\* price, lines 61-62
PriceGetDerivativeTree ==
    /\ pc = "price_61"
    /\ IF IsUnset(self.derivative_price_tree)
       THEN /\ pc' = "build_derivative_tree"
            /\ frame' = DerivFrame(self, Val(self.asset_price_tree))
       ELSE /\ pc' = "price_64"
            /\ frame' = frame
    /\ UNCHANGED <<cls, self, rets, builds, call>>

\* build_derivative_tree, lines 231-242: one (i, j) of the nested loops
BuildDerivativeNode ==
    /\ pc = "build_derivative_tree"
    /\ ~DerivLoopDone(frame)
    /\ LET s == DerivStep(cls, self, Val(self.asset_price_tree), frame)
       IN  /\ frame' = s.frame
           /\ self' = [self EXCEPT !.asset_price_tree = Some(s.asset)]
    /\ UNCHANGED <<pc, cls, rets, builds, call>>

\* build_derivative_tree returns and price stores the lattice (line 62)
BuildDerivativeTreeReturn ==
    /\ pc = "build_derivative_tree"
    /\ DerivLoopDone(frame)
    /\ self' = [self EXCEPT !.derivative_price_tree = Some(frame.tree)]
    /\ builds' = [builds EXCEPT !.derivative = @ + 1]
    /\ frame' = NoFrame
    /\ pc' = "price_64"
    /\ UNCHANGED <<cls, rets, call>>

\* price, lines 64-69: the root of the derivative lattice is returned (or the
\* subscript raises)
PriceReturn ==
    /\ pc = "price_64"
    /\ rets' = Append(rets, Root(Val(self.derivative_price_tree)))
    /\ pc' = "idle"
    /\ UNCHANGED <<cls, self, frame, builds, call>>

Next ==
    \/ Construct
    \/ PriceGetAssetTree
    \/ BuildAssetNode
    \/ BuildAssetTreeReturn
    \/ PriceGetDerivativeTree
    \/ BuildDerivativeNode
    \/ BuildDerivativeTreeReturn
    \/ PriceReturn

Spec == Init /\ [][Next]_vars

(***************************************************************************)
(* The reconciler on its own: every argument triple, one call each         *)
(***************************************************************************)
InitSteps ==
    /\ pc = "new"
    /\ cls = NoClass
    /\ self = NoSelf
    /\ frame = NoFrame
    /\ rets = <<>>
    /\ builds = [asset |-> 0, derivative |-> 0]
    /\ call \in [phase : {"called"}, T : TArgs, dT : dTArgs, N : NArgs]

GetCheckSteps ==
    /\ call.phase = "called"
    /\ call' = [phase |-> "returned", T |-> call.T, dT |-> call.dT, N |-> call.N,
                result |-> get_check_steps(call.T, call.dT, call.N)]
    /\ UNCHANGED <<pc, cls, self, frame, rets, builds>>

NextSteps == GetCheckSteps

SpecSteps == InitSteps /\ [][NextSteps]_vars

\* the price property on an instance whose lattices are not built yet, as one
\* evaluation: both builds, then the root
PriceOf(c, o) ==
    LET o1 == [o EXCEPT !.asset_price_tree = Some(build_asset_tree(o)),
                        !.derivative_price_tree = None]
    IN  Root(build_derivative_tree(c, o1))

Constructed == pc \notin {"new", "raised"}

\* the European instance built from the same arguments as this one
EuropeanTwin == PriceOf([cls EXCEPT !.exercise = "European"], self)

(***************************************************************************)
(* Claims about the reconciler (specification SpecSteps)                   *)
(***************************************************************************)
Returned == call.phase = "returned"
ReturnedTriple == Returned /\ ~Raised(call.result)

\* C1: the reconciler fails whenever zero or more than one of {T, dT, N} is
\* missing and returns a triple only when exactly one is missing; in particular
\* all three supplied must raise rather than return.  (Any error counts as
\* failing here, not only the invalid-configuration TypeError.)
C1_RaisesUnlessExactlyOneMissing ==
    Returned =>
        (NumNone(call.T, call.dT, call.N) # 1 => Raised(call.result))

Ceil(x) == IF x[1] % x[2] = 0 THEN x[1] \div x[2] ELSE (x[1] \div x[2]) + 1

\* C2: every returned triple satisfies (N - 1) * dT = T exactly, in each branch
\* (N missing with T/dT integral or not, T missing, dT missing); when T/dT is
\* not integral N is ceil(T/dT) + 1.
C2_TripleConsistent ==
    ReturnedTriple =>
        /\ Mul(FromInt(call.result.N - 1), call.result.dT) = call.result.T
        /\ call.N = None =>
               call.result.N = Ceil(Div(Val(call.T), Val(call.dT))) + 1

\* C2 witness: the rounding branch was taken (T = 1/2, dT = 1/3: N rounded up to
\* 3 and dT recomputed as 1/4).
C2_Witness ==
    /\ ReturnedTriple
    /\ call.N = None
    /\ call.T = Some(R(1, 2)) /\ call.dT = Some(R(1, 3))
    /\ call.result.N = 3 /\ call.result.dT = R(1, 4)

\* C3 as stated: every returned triple has an integer N >= 2.
C3_NAtLeastTwo ==
    ReturnedTriple => (call.result.N \in Int /\ call.result.N >= 2)

\* C3 amended: every returned triple has an integer N; an N derived from
\* supplied T and dT is >= 2 when T/dT > 0 and is 1 when T = 0; a supplied N is
\* returned as it was given, whatever its value.
C3_NDerivedOrAsGiven ==
    ReturnedTriple =>
        /\ call.result.N \in Int
        /\ call.N # None => call.result.N = Val(call.N)
        /\ (call.N = None /\ Gt(Div(Val(call.T), Val(call.dT)), Zero))
               => call.result.N >= 2
        /\ (call.N = None /\ Val(call.T) = Zero) => call.result.N = 1

\* C3 witness: T/dT < 1 (T = 1/4, dT = 1/3) with N missing gives N = 2.
C3_Witness ==
    /\ ReturnedTriple
    /\ call.N = None
    /\ call.T = Some(R(1, 4)) /\ call.dT = Some(R(1, 3))
    /\ call.result.N = 2

(***************************************************************************)
(* Claims about the instance (specification Spec)                          *)
(***************************************************************************)
HasRead == pc = "idle" /\ Len(rets) >= 1
AssetBuilt == Constructed /\ self.asset_price_tree # None
DerivativeBuilt == Constructed /\ self.derivative_price_tree # None

\* C4: with the degenerate step count N = 1, reading price does not fail and
\* returns the intrinsic payoff at the spot: max(S0 - K, 0) for a call and
\* max(K - S0, 0) for a put.
C4_DegeneratePriceIsIntrinsic ==
    (HasRead /\ self.N = 1) =>
        /\ rets[1].raise = "None"
        /\ rets[1].value = option_price(cls, self.S0, self.K)

\* C5: construction builds neither lattice; the first price read builds the
\* asset lattice and then the derivative lattice; each is built once over the
\* life of the instance; every later read returns what the first returned ...
C5_State ==
    /\ (pc = "idle" /\ rets = <<>>) =>
           /\ self.asset_price_tree = None
           /\ self.derivative_price_tree = None
           /\ builds = [asset |-> 0, derivative |-> 0]
    /\ builds.asset <= 1 /\ builds.derivative <= 1
    /\ AssetBuilt <=> builds.asset = 1
    /\ DerivativeBuilt <=> builds.derivative = 1
    /\ (pc = "build_derivative_tree" \/ builds.derivative = 1) => builds.asset = 1
    /\ pc = "build_asset_tree" => builds.derivative = 0
    /\ Len(rets) >= 1 => builds = [asset |-> 1, derivative |-> 1]
    /\ \A k \in 1..Len(rets) : rets[k] = rets[1]

\* ... and leaves both cached lattices as they were.
C5_Step ==
    Len(rets) >= 1 =>
        /\ self'.asset_price_tree = self.asset_price_tree
        /\ self'.derivative_price_tree = self.derivative_price_tree

\* C5: lattices are built lazily by the first read, asset before derivative,
\* once each, and every later read returns the same value and changes neither.
C5_LazyBuiltOnceThenCached == []C5_State /\ [][C5_Step]_vars

\* C5 witness: a second read has returned from the cached lattices.
C5_Witness ==
    /\ pc = "idle" /\ Len(rets) = 2
    /\ self.N >= 2
    /\ rets[2] = Root(Val(self.derivative_price_tree))

\* C6: for every accepted parameter set, the price of the American option is at
\* least the price of the European option built from the same arguments.
\* (Stated for instances whose two prices are numbers; a nan price, as vol = 0
\* gives, fails every comparison.)
C6_AmericanAtLeastEuropean ==
    (HasRead /\ cls.exercise = "American" /\ rets[1].raise = "None"
        /\ ~IsNaN(rets[1].value) /\ ~IsNaN(EuropeanTwin.value))
    => Ge(rets[1].value, EuropeanTwin.value)

\* C7: on every currency instance the yield q that the risk-neutral factors are
\* computed from is the foreign risk-free rate given to the constructor; q is
\* never left at the caller's nominal q.
C7_CurrencyYieldIsForeignRate ==
    (Constructed /\ cls.asset = "Currency") =>
        (self.rf # None /\ self.q = Val(self.rf))

RECURSIVE Pow(_, _)
Pow(x, n) == IF n = 0 THEN One ELSE Mul(x, Pow(x, n - 1))

\* C8: once build_asset_tree has completed with N >= 2, cell (i, j) is
\* S0 * u^j * d^(i-j) for j <= i (so cell (0, 0) is S0) and 0 for j > i; and a
\* cell written twice in a row (up-child of (i, j-1), then down-child of (i, j))
\* gets from the second write the value the first one left.
C8_AssetLatticeRecombines ==
    /\ (AssetBuilt /\ self.N >= 2) =>
           LET t == Val(self.asset_price_tree)
               f == calc_riskfree_proportion(self)
           IN  \A i \in 0..(self.N - 1), j \in 0..(self.N - 1) :
                   t[i][j] = IF j <= i
                             THEN Mul(self.S0, Mul(Pow(f.u, j), Pow(f.d, i - j)))
                             ELSE Zero
    /\ (pc = "build_asset_tree" /\ ~AssetLoopDone(self, frame) /\ frame.j > 0) =>
           frame.tree[frame.i + 1][frame.j]
               = Mul(frame.tree[frame.i][frame.j], frame.d)

\* C8 witness: a built lattice with three rows and u > 1, whose middle cell of
\* the last row was written twice.
C8_Witness ==
    /\ AssetBuilt /\ self.N >= 3
    /\ Gt(calc_riskfree_proportion(self).u, One)
    /\ Val(self.asset_price_tree)[2][1] = self.S0
    /\ Val(self.asset_price_tree)[2][0] # Val(self.asset_price_tree)[2][2]

\* exp(-r*dT) * (p * t[i+1][j+1] + (1 - p) * t[i+1][j])
Discounted(o, p, t, i, j) ==
    Mul(Exp(Mul(Neg(o.r), o.dT)),
        Add(Mul(p, t[i + 1][j + 1]), Mul(Sub(One, p), t[i + 1][j])))

\* the nodes (i, j) build_derivative_tree has computed so far
Computed(i, j) ==
    IF pc = "build_derivative_tree"
    THEN i > frame.i \/ (i = frame.i /\ j < frame.j)
    ELSE DerivativeBuilt

DerivativeCells ==
    IF pc = "build_derivative_tree" THEN frame.tree
    ELSE Val(self.derivative_price_tree)

\* C9: for a European option with N >= 2, every maturity cell (N-1, j) is
\* payoff(asset(N-1, j), K) and every cell (i, j) above is the discounted
\* expectation of its two children; this holds of each node from the moment it
\* is computed, so its children are final then and are not changed afterwards.
C9_EuropeanBackwardInduction ==
    (Constructed /\ cls.exercise = "European" /\ self.N >= 2
        /\ (pc = "build_derivative_tree" \/ DerivativeBuilt)) =>
        LET t == DerivativeCells
            a == Val(self.asset_price_tree)
            p == calc_riskfree_proportion(self).p
        IN  \A i \in 0..(self.N - 2), j \in 0..(self.N - 2) :
                (j <= i /\ Computed(i, j)) =>
                    /\ t[i][j] = Discounted(self, p, t, i, j)
                    /\ i = self.N - 2 =>
                           /\ t[i + 1][j] = option_price(cls, a[i + 1][j], self.K)
                           /\ t[i + 1][j + 1]
                                  = option_price(cls, a[i + 1][j + 1], self.K)

\* C9 witness: a finished European lattice of three rows with a positive price
\* and an interior node of row 1 that is worth something.
C9_Witness ==
    /\ DerivativeBuilt /\ cls.exercise = "European" /\ self.N >= 3
    /\ Gt(Val(self.derivative_price_tree)[0][0], Zero)
    /\ Gt(Val(self.derivative_price_tree)[1][1], Zero)
    /\ Val(self.derivative_price_tree)[1][1]
           # option_price(cls, Val(self.asset_price_tree)[1][1], self.K)

\* C10: for an American option with N >= 2, after build_derivative_tree every
\* cell (i, j) with j <= i <= N-2 is max(discounted expectation of its children,
\* payoff(asset(i, j), K)); so every such cell is >= the payoff at its own node
\* and the price is >= payoff(S0, K).
C10_AmericanEarlyExercise ==
    (DerivativeBuilt /\ cls.exercise = "American" /\ self.N >= 2) =>
        LET t == Val(self.derivative_price_tree)
            a == Val(self.asset_price_tree)
            p == calc_riskfree_proportion(self).p
        IN  /\ \A i \in 0..(self.N - 2), j \in 0..(self.N - 2) :
                   j <= i =>
                       /\ t[i][j] = PyMax(Discounted(self, p, t, i, j),
                                          option_price(cls, a[i][j], self.K))
                       /\ Ge(t[i][j], option_price(cls, a[i][j], self.K))
            /\ Ge(t[0][0], option_price(cls, self.S0, self.K))

\* C11 step: a step of build_derivative_tree (entering it, one node, returning)
\* leaves every attribute of the instance but derivative_price_tree as it was:
\* the asset lattice cell for cell, and S0, K, r, q, vol, T, dT, N, rf.
C11_Step ==
    (pc = "build_derivative_tree" \/ pc' = "build_derivative_tree") =>
        /\ self'.asset_price_tree = self.asset_price_tree
        /\ self' = [self EXCEPT
                      !.derivative_price_tree = self'.derivative_price_tree]
        /\ cls' = cls

\* C11: building the derivative lattice, with the European or the American node
\* rule, writes only cells of the derivative lattice; the asset lattice and the
\* pricing parameters are the same after each step of the build as before it,
\* although every node step is handed an aliased window of the asset lattice.
C11_DerivativeBuildFrame == [][C11_Step]_vars

\* C11 witness: a derivative build of three rows has worked through the maturity
\* row with something written, while the asset lattice is still the one
\* build_asset_tree produced.
C11_Witness ==
    /\ pc = "build_derivative_tree"
    /\ self.N >= 3
    /\ frame.i < self.N - 2
    /\ \E j \in 0..(self.N - 1) : Gt(frame.tree[self.N - 1][j], Zero)
    /\ Gt(frame.tree[self.N - 2][0], Zero) \/ Gt(frame.tree[self.N - 2][1], Zero)
    /\ Val(self.asset_price_tree) = build_asset_tree(self)

====
